---------------------------- MODULE Spec2Model ----------------------------
(***************************************************************************)
(* The room engine of the Strawberry word game                             *)
(* (client/src/gameLogic.tsx): a room value moves through the phases       *)
(* start -> hint (proposing <-> resolving) -> endgame by pure transition   *)
(* functions.  Every engine function is an operator from a room to a       *)
(* result (a returned room, or a thrown error); every call of              *)
(* Math.random() is an explicit argument of the operator, chosen by the    *)
(* action that applies it.                                                 *)
(***************************************************************************)
EXTENDS Integers, Sequences, FiniteSets, Bags, TLC

VARIABLES
    room,   \* the current room value (StartingPhase | HintingPhase | EndgamePhase)
    last,   \* the last engine call: its name, whether it returned, its error, its draws
    stateVersion,   \* the version of the room the server holds
    game,           \* of each client: the room and the version it has listed last
    mutation,       \* of each client: the mutation useMutateGame holds, if any
    requested,      \* of each client: the mutations its player has asked for
    commits,        \* the calls of callCommit under way
    responses       \* the responses of callCommit under way

\* the variables of the clients' hooks (client/src/gameHook.tsx) and of the server
hookVars == <<stateVersion, game, mutation, requested, commits, responses>>

vars == <<room, last, stateVersion, game, mutation, requested, commits, responses>>

-----------------------------------------------------------------------------
(* Bounds of the model *)

\* longest hint (lettersAndSources) a player gives
MaxHintLen == 2
\* hints given in one run of the whole-life specification
MaxLog == 1
\* hints given in one run of the hinting specifications
MaxHints == 1
\* actions submitted for one hint
MaxActions == 2
\* players a room is grown to before the game starts
MaxRoom == 3
\* players a room is grown to in the whole-life specification
MaxLifeRoom == 2
\* length of an endgame guess list
MaxGuessLen == 2
\* players of the largest Start room startGameRoom is called on
MaxStartRoom == 7
\* players a room is grown to by calls of addPlayerToRoom
MaxJoinRoom == 7
\* mutations the player of one client asks for
MaxRequests == 1
\* the highest version the server gives the room
MaxVersion == 4

\* the word length the rooms are created with
WordLength == 2

-----------------------------------------------------------------------------
(* Constants of the program *)

MIN_PLAYERS == 2
MAX_PLAYERS == 6
STARTING_HINTS == 11

\* LETTERS, cut to its first two letters
LETTERS == {"A", "B"}

\* null, for a Letter | null
NULL == "null"
\* null, for a word (string | null); no word over LETTERS equals it
NullWord == <<"null">>
\* what indexing past the end of an array gives
UNDEFINED == "undefined"

\* the player names that join a room
Names == {"a", "b", "c"}
\* a name that never joins
Stranger == "zed"

-----------------------------------------------------------------------------
(* Results of a call: a returned value or a thrown error *)

\* drawn is the multiset of the letters randomLetter() returned during the call
Return(v) == [ok |-> TRUE, isNull |-> FALSE, value |-> v, drawn |-> EmptyBag]
ReturnDrawn(v, drawn) == [ok |-> TRUE, isNull |-> FALSE, value |-> v, drawn |-> drawn]
ReturnNull == [ok |-> TRUE, isNull |-> TRUE]
Throw(msg) == [ok |-> FALSE, error |-> msg]

\* arr[i] of a 0-indexed array
At(arr, i) == IF i + 1 \in DOMAIN arr THEN arr[i + 1] ELSE UNDEFINED

Range(s) == {s[i] : i \in DOMAIN s}

\* the multiset of the values of an array (or of a map)
SeqToBag(s) == [x \in Range(s) |-> Cardinality({i \in DOMAIN s : s[i] = x})]

RECURSIVE SeqsUpTo(_, _)
\* the sequences over S of length at most n
SeqsUpTo(S, n) ==
    IF n = 0 THEN {<<>>}
    ELSE LET shorter == SeqsUpTo(S, n - 1)
         IN  shorter \cup {Append(s, x) : s \in {t \in shorter : Len(t) = n - 1}, x \in S}

\* utils.mapNth: the array with f applied to its n-th (0-indexed) element;
\* f is a function on the elements of the array
MapNth(arr, n, f) ==
    [i \in DOMAIN arr |-> IF i = n + 1 THEN f[arr[i]] ELSE arr[i]]

\* the orders shuffle can put the places of a word in
Orders(word) ==
    {o \in [DOMAIN word -> DOMAIN word] : \A i, j \in DOMAIN word : i # j => o[i] # o[j]}

\* utils.shuffle: the word's letters in the order drawn
Shuffle(word, order) == [k \in DOMAIN word |-> word[order[k]]]

\* a Record<number, T> with no key
EmptyMap == [k \in {} |-> NULL]

-----------------------------------------------------------------------------
(* Phase setup *)

isRoomReady(r) ==
    /\ \A i \in DOMAIN r.players : r.players[i].word # NullWord
    /\ Len(r.players) >= MIN_PLAYERS
    /\ Len(r.players) <= MAX_PLAYERS

\* a faulty variant of dummyLettersForFreeHint, which C13 must tell from it:
\* four players get one dummy
dummyLettersForFreeHintOneForFour(playerCount) ==
    CASE playerCount = 2 -> Return(<<7, 8, 9, 10>>)
      [] playerCount = 3 -> Return(<<7, 8, 9>>)
      [] playerCount = 4 -> Return(<<8>>)
      [] playerCount = 5 -> Return(<<7>>)
      [] playerCount = 6 -> Return(<<>>)
      [] OTHER -> Throw("wrong number of players")

\* a faulty variant of dummyLettersForFreeHint, which C17 must tell from it:
\* any other number of players gets no dummy
dummyLettersForFreeHintNeverThrowing(playerCount) ==
    CASE playerCount = 2 -> Return(<<7, 8, 9, 10>>)
      [] playerCount = 3 -> Return(<<7, 8, 9>>)
      [] playerCount = 4 -> Return(<<7, 8>>)
      [] playerCount = 5 -> Return(<<7>>)
      [] OTHER -> Return(<<>>)

dummyLettersForFreeHint(playerCount) ==
    CASE playerCount = 2 -> Return(<<7, 8, 9, 10>>)
      [] playerCount = 3 -> Return(<<7, 8, 9>>)
      [] playerCount = 4 -> Return(<<7, 8>>)
      [] playerCount = 5 -> Return(<<7>>)
      [] playerCount = 6 -> Return(<<>>)
      [] OTHER -> Throw("wrong number of players")

newStartingPhase(firstPlayerName, wordLength) ==
    [phase |-> "start",
     wordLength |-> wordLength,
     players |-> <<[name |-> firstPlayerName, word |-> NullWord]>>]

\* a faulty variant of addPlayerToRoom, which C14 must tell from it: a full
\* room is returned as it is
addPlayerToRoomUnlessFull(r, playerName) ==
    IF Len(r.players) >= MAX_PLAYERS THEN r
    ELSE [r EXCEPT !.players = Append(@, [name |-> playerName, word |-> NullWord])]

addPlayerToRoom(r, playerName) ==
    [r EXCEPT !.players = Append(@, [name |-> playerName, word |-> NullWord])]

removePlayerFromRoom(r, playerName) ==
    LET keep(p) == p.name # playerName
    IN  [r EXCEPT !.players = SelectSeq(@, keep)]

\* a faulty variant of setPlayerWord, which C7 must tell from it: the player
\* whose word is set moves behind the other players
setPlayerWordMovingLast(r, playerName, word) ==
    LET others(p) == p.name # playerName
        named(p) == p.name = playerName
    IN  [r EXCEPT !.players =
            SelectSeq(@, others)
                \o [i \in DOMAIN SelectSeq(@, named) |->
                        [name |-> playerName, word |-> word]]]

setPlayerWord(r, playerName, word) ==
    [r EXCEPT !.players =
        [i \in DOMAIN @ |->
            IF @[i].name = playerName
            THEN [name |-> playerName, word |-> word]
            ELSE @[i]]]

\* a faulty variant of PreviousWord, which C9 must tell from it: the word
\* of the next player
NextWord(r, index) ==
    LET n == Len(r.players)
    IN  r.players[((index + 1) % n) + 1].word

\* the word player index (0-indexed) receives: the previous player's
PreviousWord(r, index) ==
    LET n == Len(r.players)
    IN  r.players[((index + n - 1) % n) + 1].word

\* what startGameRoom throws: "" when it returns
StartGameError(r) ==
    LET n == Len(r.players)
        schedule == dummyLettersForFreeHint(n)
    IN  IF \E i \in 1..n : PreviousWord(r, i - 1) = NullWord
        THEN "Room is not ready"
        ELSE IF ~schedule.ok THEN schedule.error
        ELSE ""

\* orders[i] is the order shuffle(word) draws for player i, dummyLetters[j]
\* the outcome of randomLetter() for dummy j
startGameRoom(r, orders, dummyLetters) ==
    LET n == Len(r.players)
        schedule == dummyLettersForFreeHint(n)
    IN  IF StartGameError(r) # "" THEN Throw(StartGameError(r))
        ELSE ReturnDrawn(
            [phase |-> "hint",
             wordLength |-> r.wordLength,
             players |->
                [i \in 1..n |->
                    [name |-> r.players[i].name,
                     hand |-> [letters |-> Shuffle(PreviousWord(r, i - 1), orders[i]),
                               guesses |-> [k \in DOMAIN PreviousWord(r, i - 1) |-> NULL],
                               activeIndex |-> 0],
                     hintsGiven |-> 0]],
             dummies |->
                [j \in DOMAIN schedule.value |->
                    [currentLetter |-> dummyLetters[j],
                     untilFreeHint |-> schedule.value[j]]],
             bonuses |-> <<>>,
             hintsRemaining |-> STARTING_HINTS,
             hintLog |-> <<>>,
             activeHint |-> [state |-> "PROPOSING", proposedHints |-> EmptyMap]],
            SeqToBag([j \in DOMAIN schedule.value |-> dummyLetters[j]]))

-----------------------------------------------------------------------------
(* Hinting: proposing and giving a hint *)

getPlayerNumber(r, playerName) ==
    IF \E i \in DOMAIN r.players : r.players[i].name = playerName
    THEN CHOOSE i \in DOMAIN r.players :
            /\ r.players[i].name = playerName
            /\ \A j \in 1..(i - 1) : r.players[j].name # playerName
    ELSE 0  \* null

\* hint = NULLHINT deletes the player's proposal
NULLHINT == [givenByPlayer |-> 0, lettersAndSources |-> <<>>]

setProposedHint(r, playerName, hint) ==
    LET playerNumber == getPlayerNumber(r, playerName)
        old == r.activeHint.proposedHints
    IN  IF playerNumber = 0 THEN Throw("player not in room")
        ELSE Return([r EXCEPT !.activeHint.proposedHints =
                IF hint = NULLHINT
                THEN [k \in DOMAIN old \ {playerNumber} |-> old[k]]
                ELSE [k \in DOMAIN old \cup {playerNumber} |->
                        IF k = playerNumber THEN hint ELSE old[k]]])

\* the players whose letters a hint uses
HintPlayers(hint) ==
    {hint.lettersAndSources[i].playerNumber :
        i \in {k \in DOMAIN hint.lettersAndSources :
                    hint.lettersAndSources[k].sourceType = "player"}}

\* a faulty variant of playersWithOutstandingAction, which C8 must tell from
\* it: nobody is waited for once anybody has acted
playersWithOutstandingActionUntilFirst(activeHint) ==
    IF activeHint.playerActions # <<>> THEN {} ELSE HintPlayers(activeHint.hint)

playersWithOutstandingAction(activeHint) ==
    HintPlayers(activeHint.hint)
        \ {activeHint.playerActions[i].player : i \in DOMAIN activeHint.playerActions}

\* a faulty variant of CheckLetter, which C1 must tell from it: a bonus
\* letter passes whether or not the pool holds it
CheckLetterAnyBonus(r, l) ==
    CASE l.sourceType = "dummy" ->
            IF l.dummyNumber \notin DOMAIN r.dummies THEN "TypeError"
            ELSE IF r.dummies[l.dummyNumber].currentLetter # l.letter THEN "illegal hint"
            ELSE ""
      [] l.sourceType = "player" ->
            IF l.playerNumber \notin DOMAIN r.players THEN "TypeError"
            ELSE LET hand == r.players[l.playerNumber].hand
                 IN  IF At(hand.letters, hand.activeIndex) # l.letter
                     THEN "illegal hint" ELSE ""
      [] OTHER -> ""

\* the sanity check of one letter of a hint: "" when it passes, else what is thrown
CheckLetter(r, l) ==
    CASE l.sourceType = "bonus" ->
            IF l.letter \in Range(r.bonuses) THEN "" ELSE "illegal hint"
      [] l.sourceType = "dummy" ->
            IF l.dummyNumber \notin DOMAIN r.dummies THEN "TypeError"
            ELSE IF r.dummies[l.dummyNumber].currentLetter # l.letter THEN "illegal hint"
            ELSE ""
      [] l.sourceType = "player" ->
            IF l.playerNumber \notin DOMAIN r.players THEN "TypeError"
            ELSE LET hand == r.players[l.playerNumber].hand
                 IN  IF At(hand.letters, hand.activeIndex) # l.letter
                     THEN "illegal hint" ELSE ""
      [] OTHER -> ""

RECURSIVE CheckLetters(_, _)
\* the loop over the hint's letters: the first failure is the one thrown
CheckLetters(r, ls) ==
    IF ls = <<>> THEN ""
    ELSE IF CheckLetter(r, Head(ls)) # "" THEN CheckLetter(r, Head(ls))
    ELSE CheckLetters(r, Tail(ls))

\* the 0-indexed place of the first element equal to x, -1 when there is none
FindIndex(arr, x) ==
    IF x \in Range(arr)
    THEN (CHOOSE i \in DOMAIN arr : arr[i] = x /\ \A j \in 1..(i - 1) : arr[j] # x) - 1
    ELSE -1

\* the dummies (0-indexed) a hint uses up
DummiesUsed(hint) ==
    {hint.lettersAndSources[i].dummyNumber - 1 :
        i \in {k \in DOMAIN hint.lettersAndSources :
                    hint.lettersAndSources[k].sourceType = "dummy"}}

\* the places (0-indexed) of the bonus pool a hint uses up
BonusesUsed(r, hint) ==
    {FindIndex(r.bonuses, hint.lettersAndSources[i].letter) :
        i \in {k \in DOMAIN hint.lettersAndSources :
                    hint.lettersAndSources[k].sourceType = "bonus"}}

\* the elements of arr whose 0-indexed place is not in drop
RECURSIVE DropPlaces(_, _, _)
DropPlaces(arr, drop, from) ==
    IF arr = <<>> THEN <<>>
    ELSE (IF from \in drop THEN <<>> ELSE <<Head(arr)>>)
            \o DropPlaces(Tail(arr), drop, from + 1)

\* a faulty variant of FreeHints, which C5 must tell from it: the free hint
\* is granted one use late
FreeHintsLate(r, dummiesUsed) ==
    Cardinality({index \in dummiesUsed :
        index + 1 \in DOMAIN r.dummies /\ r.dummies[index + 1].untilFreeHint = 0})

\* a faulty variant of FreeHints, which C22 must tell from it: a dummy goes
\* on granting a free hint at every use after its countdown has run out
FreeHintsAgain(r, dummiesUsed) ==
    Cardinality({index \in dummiesUsed :
        index + 1 \in DOMAIN r.dummies /\ r.dummies[index + 1].untilFreeHint <= 1})

\* the number of dummies used that grant a free hint
FreeHints(r, dummiesUsed) ==
    Cardinality({index \in dummiesUsed :
        index + 1 \in DOMAIN r.dummies /\ r.dummies[index + 1].untilFreeHint = 1})

\* dummyLetters[index] is the outcome of randomLetter() for the used dummy index
fullyResolveHint(r, dummyLetters) ==
    LET hint == r.activeHint.hint
        logEntry == [hint |-> hint,
                     totalHints |-> Len(r.hintLog) + r.hintsRemaining,
                     activeIndexes |-> r.activeHint.activeIndexes,
                     playerActions |-> r.activeHint.playerActions]
        dummiesUsed == DummiesUsed(hint)
        bonusesUsed == BonusesUsed(r, hint)
        hintsRemaining == r.hintsRemaining - 1 + FreeHints(r, dummiesUsed)
        dummies == [j \in DOMAIN r.dummies |->
                        IF (j - 1) \in dummiesUsed
                        THEN [currentLetter |-> dummyLetters[j - 1],
                              untilFreeHint |-> r.dummies[j].untilFreeHint - 1]
                        ELSE r.dummies[j]]
        bonuses == DropPlaces(r.bonuses, bonusesUsed, 0)
        drawnAt == {j \in DOMAIN r.dummies : (j - 1) \in dummiesUsed}
    IN  [room |-> [r EXCEPT !.dummies = dummies,
                            !.bonuses = bonuses,
                            !.hintsRemaining = hintsRemaining,
                            !.hintLog = Append(@, logEntry),
                            !.activeHint = [state |-> "PROPOSING",
                                            proposedHints |-> EmptyMap]],
         drawn |-> SeqToBag([j \in drawnAt |-> dummyLetters[j - 1]])]

\* a faulty variant of giveHint, which C10 must tell from it: the hint is
\* never resolved at once
giveHintNeverResolved(r, hint, dummyLetters) ==
    LET check == CheckLetters(r, hint.lettersAndSources)
        bump == [player \in Range(r.players) |-> [player EXCEPT !.hintsGiven = @ + 1]]
        newRoom == [r EXCEPT
            !.players = MapNth(@, hint.givenByPlayer - 1, bump),
            !.activeHint = [state |-> "RESOLVING",
                            hint |-> hint,
                            playerActions |-> <<>>,
                            activeIndexes |->
                                [i \in DOMAIN r.players |-> r.players[i].hand.activeIndex]]]
    IN  IF check # "" THEN Throw(check) ELSE Return(newRoom)

giveHint(r, hint, dummyLetters) ==
    LET check == CheckLetters(r, hint.lettersAndSources)
        bump == [player \in Range(r.players) |-> [player EXCEPT !.hintsGiven = @ + 1]]
        newRoom == [r EXCEPT
            !.players = MapNth(@, hint.givenByPlayer - 1, bump),
            !.activeHint = [state |-> "RESOLVING",
                            hint |-> hint,
                            playerActions |-> <<>>,
                            activeIndexes |->
                                [i \in DOMAIN r.players |-> r.players[i].hand.activeIndex]]]
    IN  IF check # "" THEN Throw(check)
        ELSE IF playersWithOutstandingAction(newRoom.activeHint) = {}
        THEN LET done == fullyResolveHint(newRoom, dummyLetters)
             IN  ReturnDrawn(done.room, done.drawn)
        ELSE Return(newRoom)

-----------------------------------------------------------------------------
(* Hinting: resolving the active hint *)

\* a faulty variant of whichResolveActionRequired, which C6 must tell from
\* it: a player that has acted is Done whether or not the hint names it
whichResolveActionRequiredDoneFirst(r, playerName) ==
    LET playerNumber == getPlayerNumber(r, playerName)
    IN  IF playerNumber = 0 THEN "uninvolved"
        ELSE IF r.activeHint.state # "RESOLVING" THEN "TypeError"
        ELSE IF \E i \in DOMAIN r.activeHint.playerActions :
                    r.activeHint.playerActions[i].player = playerNumber
        THEN "done"
        ELSE IF playerNumber \notin HintPlayers(r.activeHint.hint) THEN "uninvolved"
        ELSE IF Len(r.players[playerNumber].hand.letters) = r.wordLength
        THEN "flip" ELSE "guess"

whichResolveActionRequired(r, playerName) ==
    LET playerNumber == getPlayerNumber(r, playerName)
    IN  IF playerNumber = 0 THEN "uninvolved"
        \* room.activeHint.hint is undefined unless the hint is being resolved
        ELSE IF r.activeHint.state # "RESOLVING" THEN "TypeError"
        ELSE IF playerNumber \notin HintPlayers(r.activeHint.hint) THEN "uninvolved"
        ELSE IF \E i \in DOMAIN r.activeHint.playerActions :
                    r.activeHint.playerActions[i].player = playerNumber
        THEN "done"
        ELSE LET handLength == Len(r.players[playerNumber].hand.letters)
             IN  IF r.wordLength # handLength
                 THEN IF handLength # r.wordLength + 1
                      THEN "Inconsistent state"
                      ELSE "guess"
                 ELSE "flip"

\* Array.prototype.slice(0, n)
Slice(arr, n) == SubSeq(arr, 1, IF n < Len(arr) THEN n ELSE Len(arr))

\* a faulty variant of applyResolution, which C3 must tell from it: a Guess
\* adds the letter that left the hand to the bonus pool, right or wrong
applyResolutionKeepingLetter(r, action, letter) ==
    LET player == r.players[action.player]
    IN  CASE action.kind = "none" -> [room |-> r, drawn |-> EmptyBag]
          [] action.kind = "flip" ->
                LET draws == player.hand.activeIndex = r.wordLength - 1
                    letters == IF draws THEN Append(player.hand.letters, letter)
                               ELSE player.hand.letters
                IN  [room |-> [r EXCEPT !.players[action.player].hand =
                                    [letters |-> letters,
                                     guesses |-> player.hand.guesses,
                                     activeIndex |-> player.hand.activeIndex + 1]],
                     drawn |-> IF draws THEN SetToBag({letter}) ELSE EmptyBag]
          [] action.kind = "guess" ->
                [room |-> [r EXCEPT
                        !.bonuses = Append(@, action.actual),
                        !.players[action.player].hand =
                            [letters |-> Append(Slice(player.hand.letters, r.wordLength),
                                                letter),
                             guesses |-> player.hand.guesses,
                             activeIndex |-> player.hand.activeIndex]],
                 drawn |-> SetToBag({letter})]

\* a faulty variant of applyResolution, which C18 must tell from it: every
\* Flip draws a letter into the hand
applyResolutionFlipDrawing(r, action, letter) ==
    LET player == r.players[action.player]
    IN  CASE action.kind = "none" -> [room |-> r, drawn |-> EmptyBag]
          [] action.kind = "flip" ->
                [room |-> [r EXCEPT !.players[action.player].hand =
                                [letters |-> Append(player.hand.letters, letter),
                                 guesses |-> player.hand.guesses,
                                 activeIndex |-> player.hand.activeIndex + 1]],
                 drawn |-> SetToBag({letter})]
          [] action.kind = "guess" ->
                [room |-> [r EXCEPT
                        !.bonuses = IF action.guess = action.actual
                                    THEN Append(@, action.guess) ELSE @,
                        !.players[action.player].hand =
                            [letters |-> Append(Slice(player.hand.letters, r.wordLength),
                                                letter),
                             guesses |-> player.hand.guesses,
                             activeIndex |-> player.hand.activeIndex]],
                 drawn |-> SetToBag({letter})]

\* a faulty variant of applyResolution, which C19 must tell from it: a Guess
\* puts the letter it draws behind the whole hand
applyResolutionGuessKeepingHand(r, action, letter) ==
    LET player == r.players[action.player]
    IN  CASE action.kind = "none" -> [room |-> r, drawn |-> EmptyBag]
          [] action.kind = "flip" ->
                LET draws == player.hand.activeIndex = r.wordLength - 1
                    letters == IF draws THEN Append(player.hand.letters, letter)
                               ELSE player.hand.letters
                IN  [room |-> [r EXCEPT !.players[action.player].hand =
                                    [letters |-> letters,
                                     guesses |-> player.hand.guesses,
                                     activeIndex |-> player.hand.activeIndex + 1]],
                     drawn |-> IF draws THEN SetToBag({letter}) ELSE EmptyBag]
          [] action.kind = "guess" ->
                [room |-> [r EXCEPT
                        !.bonuses = IF action.guess = action.actual
                                    THEN Append(@, action.guess) ELSE @,
                        !.players[action.player].hand =
                            [letters |-> Append(player.hand.letters, letter),
                             guesses |-> player.hand.guesses,
                             activeIndex |-> player.hand.activeIndex]],
                 drawn |-> SetToBag({letter})]

\* letter is the outcome of randomLetter(), when the action draws
applyResolution(r, action, letter) ==
    LET player == r.players[action.player]
    IN  CASE action.kind = "none" -> [room |-> r, drawn |-> EmptyBag]
          [] action.kind = "flip" ->
                LET draws == player.hand.activeIndex = r.wordLength - 1
                    letters == IF draws THEN Append(player.hand.letters, letter)
                               ELSE player.hand.letters
                IN  [room |-> [r EXCEPT !.players[action.player].hand =
                                    [letters |-> letters,
                                     guesses |-> player.hand.guesses,
                                     activeIndex |-> player.hand.activeIndex + 1]],
                     drawn |-> IF draws THEN SetToBag({letter}) ELSE EmptyBag]
          [] action.kind = "guess" ->
                [room |-> [r EXCEPT
                        !.bonuses = IF action.guess = action.actual
                                    THEN Append(@, action.guess) ELSE @,
                        !.players[action.player].hand =
                            [letters |-> Append(Slice(player.hand.letters, r.wordLength),
                                                letter),
                             guesses |-> player.hand.guesses,
                             activeIndex |-> player.hand.activeIndex]],
                 drawn |-> SetToBag({letter})]

\* a faulty variant of performResolveAction, which C2 must tell from it: the
\* resolution is never completed
performResolveActionNeverCompleting(r, action, letter, dummyLetters) ==
    LET recorded == [r EXCEPT !.activeHint.playerActions = Append(@, action)]
        applied == applyResolution(recorded, action, letter)
    IN  ReturnDrawn(applied.room, applied.drawn)

performResolveAction(r, action, letter, dummyLetters) ==
    LET recorded == [r EXCEPT !.activeHint.playerActions = Append(@, action)]
        applied == applyResolution(recorded, action, letter)
        newRoom == applied.room
    IN  IF playersWithOutstandingAction(newRoom.activeHint) = {}
        THEN LET done == fullyResolveHint(newRoom, dummyLetters)
             IN  ReturnDrawn(done.room, applied.drawn (+) done.drawn)
        ELSE ReturnDrawn(newRoom, applied.drawn)

moveToEndgame(r) ==
    [phase |-> "endgame",
     wordLength |-> r.wordLength,
     dummies |-> r.dummies,
     bonuses |-> r.bonuses,
     hintLog |-> r.hintLog,
     hintsRemaining |-> 0,
     players |->
        [i \in DOMAIN r.players |->
            [name |-> r.players[i].name,
             hintsGiven |-> r.players[i].hintsGiven,
             hand |-> [guesses |-> r.players[i].hand.guesses,
                       letters |-> Slice(r.players[i].hand.letters, r.wordLength),
                       activeIndex |-> r.wordLength],
             guess |-> <<>>,
             committed |-> FALSE]]]

setHandGuess(r, playerNumber, index, guess) ==
    LET setHand ==
            [player \in Range(r.players) |->
                [player EXCEPT !.hand.guesses =
                    MapNth(@, index, [old \in Range(player.hand.guesses) |-> guess])]]
    IN  [r EXCEPT !.players = MapNth(@, playerNumber - 1, setHand)]

-----------------------------------------------------------------------------
(* Endgame: claiming letters *)

\* a faulty variant of RemoveFirst, which C12 must tell from it: a claimed
\* bonus letter stays in the pool
RemoveNone(arr, x) == arr

\* the first element equal to x spliced out of arr
RemoveFirst(arr, x) ==
    LET ix == FindIndex(arr, x)
    IN  SubSeq(arr, 1, ix) \o SubSeq(arr, ix + 2, Len(arr))

\* whether a guess list claims one of the player's own places twice
ClaimsPlaceTwice(guess) ==
    \E i, j \in DOMAIN guess :
        /\ i < j
        /\ guess[i].sourceType = "player"
        /\ guess[j].sourceType = "player"
        /\ guess[i].index = guess[j].index

RECURSIVE ClaimShared(_, _, _)
\* the loop over every player's claims of the shared letters: what is left of
\* the bonus pool and of the wildcard, or the InvalidLetters it throws
ClaimShared(claims, bonuses, wildcardAvailable) ==
    IF claims = <<>>
    THEN Return([bonuses |-> bonuses, wildcardAvailable |-> wildcardAvailable])
    ELSE LET guess == Head(claims)
         IN  CASE guess.sourceType = "wildcard" ->
                    IF ~wildcardAvailable THEN Throw("InvalidLetters")
                    ELSE ClaimShared(Tail(claims), bonuses, FALSE)
               [] guess.sourceType = "bonus" ->
                    IF FindIndex(bonuses, guess.letter) < 0 THEN Throw("InvalidLetters")
                    ELSE ClaimShared(Tail(claims), RemoveFirst(bonuses, guess.letter),
                                     wildcardAvailable)
               [] OTHER -> ClaimShared(Tail(claims), bonuses, wildcardAvailable)

RECURSIVE AllGuesses(_)
\* every player's guess list, in the order of the players
AllGuesses(players) ==
    IF players = <<>> THEN <<>> ELSE Head(players).guess \o AllGuesses(Tail(players))

availableLetters(r, playerNumber) ==
    LET player == r.players[playerNumber]
        shared == ClaimShared(AllGuesses(r.players), r.bonuses, TRUE)
        usedOwnLetters == {player.guess[i].index :
                            i \in {k \in DOMAIN player.guess :
                                        player.guess[k].sourceType = "player"}}
        ownPlaces == SelectSeq([i \in 1..r.wordLength |-> i - 1],
                               LAMBDA i : i \notin usedOwnLetters)
    IN  IF ClaimsPlaceTwice(player.guess) THEN Throw("InvalidLetters")
        ELSE IF ~shared.ok THEN shared
        ELSE Return(
            [k \in DOMAIN ownPlaces |-> [sourceType |-> "player", index |-> ownPlaces[k]]]
            \o (IF shared.value.wildcardAvailable
                THEN <<[sourceType |-> "wildcard", letter |-> "*"]>> ELSE <<>>)
            \o [k \in DOMAIN shared.value.bonuses |->
                    [sourceType |-> "bonus", letter |-> shared.value.bonuses[k]]])

\* a faulty variant of setFinalGuess, which C4 must tell from it: the guess
\* is installed without asking availableLetters
setFinalGuessUnchecked(r, playerNumber, guess) ==
    LET install == [player \in Range(r.players) |-> [player EXCEPT !.guess = guess]]
    IN  Return([r EXCEPT !.players = MapNth(@, playerNumber - 1, install)])

setFinalGuess(r, playerNumber, guess) ==
    LET install == [player \in Range(r.players) |-> [player EXCEPT !.guess = guess]]
        newRoom == [r EXCEPT !.players = MapNth(@, playerNumber - 1, install)]
    IN  IF availableLetters(newRoom, playerNumber).ok THEN Return(newRoom)
        ELSE ReturnNull

commitFinalGuess(r, playerNumber) ==
    LET commit == [player \in Range(r.players) |-> [player EXCEPT !.committed = TRUE]]
    IN  [r EXCEPT !.players = MapNth(@, playerNumber - 1, commit)]

-----------------------------------------------------------------------------
(* The inputs the actions draw from *)

\* the words players enter: A then Bs, and Bs only
WordAB == [k \in 1..WordLength |-> IF k = 1 THEN "A" ELSE "B"]
WordBB == [k \in 1..WordLength |-> "B"]
Words == {WordAB, WordBB}

Started(r) == r.phase \in {"hint", "endgame"}
Proposing(r) == r.phase = "hint" /\ r.activeHint.state = "PROPOSING"
Resolving(r) == r.phase = "hint" /\ r.activeHint.state = "RESOLVING"

PlayerLetter(n, l) == [sourceType |-> "player", letter |-> l, playerNumber |-> n]
DummyLetter(n, l) == [sourceType |-> "dummy", letter |-> l, dummyNumber |-> n]
BonusLetter(l) == [sourceType |-> "bonus", letter |-> l]
Wildcard == [sourceType |-> "wildcard", letter |-> "*"]

\* the sourced letters naming the given players and dummies
SourcedLetters(players, dummies) ==
    {PlayerLetter(n, l) : n \in players, l \in LETTERS}
        \cup {DummyLetter(n, l) : n \in dummies, l \in LETTERS}
        \cup {BonusLetter(l) : l \in LETTERS}
        \cup {Wildcard}

\* the hints of at most maxLen letters over the given sourced letters
HintsOver(sourced, givers, maxLen) ==
    {[givenByPlayer |-> g, lettersAndSources |-> ls] :
        g \in givers, ls \in SeqsUpTo(sourced, maxLen)}

\* every hint over the players and the first two dummies of the room
AllHints(r) ==
    HintsOver(SourcedLetters(DOMAIN r.players, DOMAIN r.dummies \cap {1, 2}),
              DOMAIN r.players, MaxHintLen)

WildcardHint == [givenByPlayer |-> 1, lettersAndSources |-> <<Wildcard>>]

\* the hints of the whole-life specification: one letter, of player 1 or 2,
\* of the first dummy, a bonus or the wildcard
FewHints(r) ==
    HintsOver(SourcedLetters(DOMAIN r.players, DOMAIN r.dummies \cap {1}),
              DOMAIN r.players \cap {1}, 1)

\* the resolve actions of the given players
ResolveActions(players) ==
    {[player |-> p, kind |-> k] : p \in players, k \in {"none", "flip"}}
        \cup {[player |-> p, kind |-> "guess", guess |-> g, actual |-> a] :
                    p \in players, g \in LETTERS, a \in LETTERS}

OwnPlace(i) == [sourceType |-> "player", index |-> i]

\* the choices of the final guesses of the endgame specification
FewChoices == {OwnPlace(0), Wildcard, BonusLetter("A")}

-----------------------------------------------------------------------------
(* The engine calls *)

\* the engine's functions are called on the room itself: no client has
\* listed the room, and no call of callCommit is under way
NoHooks ==
    /\ stateVersion = 0
    /\ game = EmptyMap
    /\ mutation = EmptyMap
    /\ requested = EmptyMap
    /\ commits = {}
    /\ responses = {}

\* the record of a call: what was called, whether it returned, whether it
\* returned null, what it threw, the letters it drew, and (for giveHint,
\* setFinalGuess and the query) its input and its answer
Called(op, res) ==
    [op |-> op,
     ok |-> res.ok,
     isNull |-> res.ok /\ res.isNull,
     error |-> IF res.ok THEN "" ELSE res.error,
     drawn |-> IF res.ok /\ ~res.isNull THEN res.drawn ELSE EmptyBag,
     hint |-> NULLHINT,
     playerNumber |-> 0,
     guess |-> <<>>,
     name |-> "",
     answer |-> ""]

\* the caller keeps its room when the call throws or returns null
Kept(res) == IF res.ok /\ ~res.isNull THEN res.value ELSE room

Apply(op, res) ==
    /\ room' = Kept(res)
    /\ last' = Called(op, res)
    /\ UNCHANGED hookVars

\* useJoinRoom: a player not in the room joins while the room has place
AddPlayer(names, maxRoom) ==
    /\ room.phase = "start"
    /\ Len(room.players) < maxRoom
    /\ Len(room.players) < MAX_PLAYERS
    /\ \E name \in names :
        /\ \A i \in DOMAIN room.players : room.players[i].name # name
        /\ Apply("addPlayerToRoom", Return(addPlayerToRoom(room, name)))

\* addPlayerToRoom called as it is, without the conditions of useJoinRoom
AddPlayerToRoom(names, maxRoom) ==
    /\ room.phase = "start"
    /\ Len(room.players) < maxRoom
    /\ \E name \in names :
        Apply("addPlayerToRoom", Return(addPlayerToRoom(room, name)))

RemovePlayer(names) ==
    /\ room.phase = "start"
    /\ \E name \in names :
        Apply("removePlayerFromRoom", Return(removePlayerFromRoom(room, name)))

SetPlayerWord(names, words) ==
    /\ room.phase = "start"
    /\ \E name \in names, word \in words \cup {NullWord} :
        Apply("setPlayerWord", Return(setPlayerWord(room, name, word)))

\* the orders shuffle can draw for each player of a room whose words are set
AllOrders(r) ==
    {os \in [DOMAIN r.players -> UNION {Orders(w) : w \in Words}] :
        \A i \in DOMAIN r.players : os[i] \in Orders(PreviousWord(r, i - 1))}

StartGame(firstLetters) ==
    /\ room.phase = "start"
    /\ IF StartGameError(room) = ""
       THEN \E orders \in AllOrders(room),
               dummyLetters \in [DOMAIN dummyLettersForFreeHint(Len(room.players)).value
                                    -> firstLetters] :
                Apply("startGameRoom", startGameRoom(room, orders, dummyLetters))
       ELSE Apply("startGameRoom", startGameRoom(room, <<>>, <<>>))

SetProposedHint(names, hints) ==
    /\ Proposing(room)
    /\ \E name \in names, hint \in hints \cup {NULLHINT} :
        Apply("setProposedHint", setProposedHint(room, name, hint))

GiveHint(hints, maxLog) ==
    /\ Proposing(room)
    /\ Len(room.hintLog) < maxLog
    /\ \E hint \in hints :
       \E dummyLetters \in [DummiesUsed(hint) -> LETTERS] :
            LET res == giveHint(room, hint, dummyLetters)
            IN  /\ room' = Kept(res)
                /\ last' = [Called("giveHint", res) EXCEPT !.hint = hint]
                /\ UNCHANGED hookVars

PerformResolveAction ==
    /\ Resolving(room)
    /\ Len(room.activeHint.playerActions) < MaxActions
    /\ \E action \in ResolveActions(DOMAIN room.players), letter \in LETTERS :
       \E dummyLetters \in [DummiesUsed(room.activeHint.hint) -> LETTERS] :
            Apply("performResolveAction",
                  performResolveAction(room, action, letter, dummyLetters))

\* the query of what a player has to do; the room is not changed
WhichResolveActionRequired ==
    /\ room.phase = "hint"
    /\ \E name \in Names \cup {Stranger} :
        LET answer == whichResolveActionRequired(room, name)
            thrown == answer \in {"TypeError", "Inconsistent state"}
        IN  /\ room' = room
            /\ last' = [Called("whichResolveActionRequired",
                               IF thrown THEN Throw(answer) ELSE Return(answer))
                            EXCEPT !.name = name,
                                   !.answer = IF thrown THEN "" ELSE answer]
            /\ UNCHANGED hookVars

MoveToEndgame ==
    /\ room.phase = "hint"
    /\ Apply("moveToEndgame", Return(moveToEndgame(room)))

SetHandGuess(players, places, letters) ==
    /\ Started(room)
    /\ \E playerNumber \in players, index \in places, guess \in letters :
        Apply("setHandGuess", Return(setHandGuess(room, playerNumber, index, guess)))

SetFinalGuess(guesses) ==
    /\ room.phase = "endgame"
    /\ \E playerNumber \in DOMAIN room.players, guess \in guesses :
        LET res == setFinalGuess(room, playerNumber, guess)
        IN  /\ room' = Kept(res)
            /\ last' = [Called("setFinalGuess", res)
                            EXCEPT !.playerNumber = playerNumber, !.guess = guess]
            /\ UNCHANGED hookVars

CommitFinalGuess ==
    /\ room.phase = "endgame"
    /\ \E playerNumber \in DOMAIN room.players :
        Apply("commitFinalGuess", Return(commitFinalGuess(room, playerNumber)))

-----------------------------------------------------------------------------
(* The whole life of a room, from its creation *)

Init ==
    /\ \E name \in {"a", "b"} : room = newStartingPhase(name, WordLength)
    /\ last = Called("newStartingPhase", Return(room))
    /\ NoHooks

Next ==
    \/ AddPlayer({"a", "b"}, MaxLifeRoom)
    \/ RemovePlayer({"a", "b"})
    \/ SetPlayerWord({"a", "b"}, {WordAB})
    \/ StartGame({"A"})
    \/ SetProposedHint({"a"}, {WildcardHint})
    \/ GiveHint(FewHints(room), MaxLog)
    \/ PerformResolveAction
    \/ MoveToEndgame
    \/ SetHandGuess({1}, {0}, {"A"})
    \/ SetFinalGuess({<<>>, <<Wildcard>>})
    \/ CommitFinalGuess

Spec == Init /\ [][Next]_vars

-----------------------------------------------------------------------------
(* The setup of a room and its start *)

NextStart ==
    \/ AddPlayer(Names, MaxRoom)
    \/ RemovePlayer(Names)
    \/ SetPlayerWord(Names, Words)
    \/ StartGame(LETTERS)

SpecStart == Init /\ [][NextStart]_vars

-----------------------------------------------------------------------------
(* Rooms in the middle of a game.  Each is computed from a started room by  *)
(* the engine's own functions, so each is a room a game can be in.          *)

\* a room of players a and b whose words are set
ReadyRoom(wordA, wordB) ==
    setPlayerWord(
        setPlayerWord(addPlayerToRoom(newStartingPhase("a", WordLength), "b"),
                      "a", wordA),
        "b", wordB)

\* the rooms startGameRoom makes of a ready room
StartedRooms(ready, firstLetters) ==
    {startGameRoom(ready, orders, dummyLetters).value :
        orders \in AllOrders(ready),
        dummyLetters \in [DOMAIN dummyLettersForFreeHint(Len(ready.players)).value
                            -> firstLetters]}

ActiveLetter(r, n) == At(r.players[n].hand.letters, r.players[n].hand.activeIndex)

\* the hint of the active letters of the given players
PlayersHint(r, giver, players) ==
    [givenByPlayer |-> giver,
     lettersAndSources |->
        [i \in DOMAIN players |-> PlayerLetter(players[i], ActiveLetter(r, players[i]))]]

\* the hint of the current letters of the given dummies
DummiesHint(r, giver, dummies) ==
    [givenByPlayer |-> giver,
     lettersAndSources |->
        [i \in DOMAIN dummies |->
            DummyLetter(dummies[i], r.dummies[dummies[i]].currentLetter)]]

\* after two hints: player 1 guessed right (a bonus letter, and a letter past
\* the end of the hand), player 2 flipped twice (a letter past the end too)
MidRoom(r0, letter) ==
    LET r1 == giveHint(r0, PlayersHint(r0, 1, <<1, 2>>), EmptyMap).value
        r2 == performResolveAction(r1,
                [player |-> 1, kind |-> "guess", guess |-> letter, actual |-> letter],
                "A", EmptyMap).value
        r3 == performResolveAction(r2, [player |-> 2, kind |-> "flip"], "A", EmptyMap).value
        r4 == giveHint(r3, PlayersHint(r3, 2, <<2>>), EmptyMap).value
    IN  performResolveAction(r4, [player |-> 2, kind |-> "flip"], letter, EmptyMap).value

RECURSIVE UseDummies(_, _, _)
\* after k more hints, each of the current letters of the given dummies
UseDummies(r, dummies, k) ==
    IF k = 0 THEN r
    ELSE UseDummies(
            giveHint(r, DummiesHint(r, 1, dummies),
                     [d \in DummiesUsed(DummiesHint(r, 1, dummies)) |-> "A"]).value,
            dummies, k - 1)

\* after seven hints: dummy 1 is one use from its free hint, and dummy 2 is
\* one use (its 7 uses made) or two uses from it
LateRooms(r0) ==
    {UseDummies(UseDummies(r0, <<1, 2>>, 6), <<2>>, 1),
     UseDummies(UseDummies(r0, <<1, 2>>, 6), <<3>>, 1)}

MidRooms == {MidRoom(r0, "A") : r0 \in StartedRooms(ReadyRoom(WordAB, WordBB), {"A"})}

\* the number of hints given in a room of MidRooms, and of LateRooms
MidLog == Len((CHOOSE r \in MidRooms : TRUE).hintLog)
LateLog ==
    Len((CHOOSE r \in LateRooms(CHOOSE r0 \in StartedRooms(ReadyRoom(WordAB, WordBB), {"A"}) : TRUE) :
            TRUE).hintLog)

InitMid ==
    /\ room \in MidRooms
    /\ last = Called("performResolveAction", Return(room))
    /\ NoHooks

NextMid ==
    \/ SetProposedHint({"a", Stranger}, {WildcardHint})
    \/ GiveHint(AllHints(room), MidLog + MaxHints)
    \/ PerformResolveAction
    \/ WhichResolveActionRequired
    \/ MoveToEndgame

SpecMid == InitMid /\ [][NextMid]_vars

InitLate ==
    /\ room \in UNION {LateRooms(r0) :
                    r0 \in StartedRooms(ReadyRoom(WordAB, WordBB), {"A"})}
    /\ last = Called("giveHint", Return(room))
    /\ NoHooks

NextLate ==
    \/ SetProposedHint({"a", Stranger}, {WildcardHint})
    \/ GiveHint(AllHints(room), LateLog + MaxHints)
    \/ PerformResolveAction

SpecLate == InitLate /\ [][NextLate]_vars

InitEnd ==
    /\ room \in {moveToEndgame(MidRoom(r0, letter)) :
                    r0 \in StartedRooms(ReadyRoom(WordAB, WordBB), {"A"}),
                    letter \in LETTERS}
    /\ last = Called("moveToEndgame", Return(room))
    /\ NoHooks

NextEnd ==
    \/ SetFinalGuess(SeqsUpTo(FewChoices, MaxGuessLen))
    \/ CommitFinalGuess

SpecEnd == InitEnd /\ [][NextEnd]_vars

-----------------------------------------------------------------------------
(* Start rooms of every size, up to one player more than a game takes: the  *)
(* engine functions put no limit on the players of a room.                  *)

\* the names of the players of these rooms, in the order they join
JoinNames == <<"a", "b", "c", "d", "e", "f", "g", "h">>

RECURSIVE WithWords(_, _, _)
\* the room after setPlayerWord for its players from the k-th on
WithWords(r, words, k) ==
    IF k > Len(words) THEN r
    ELSE WithWords(setPlayerWord(r, JoinNames[k], words[k]), words, k + 1)

RECURSIVE WithPlayers(_, _, _)
\* the room after addPlayerToRoom for the k-th to the n-th name
WithPlayers(r, k, n) ==
    IF k > n THEN r
    ELSE WithPlayers(addPlayerToRoom(r, JoinNames[k]), k + 1, n)

\* the Start room of Len(words) players with these words (or null)
StartRoom(words) ==
    IF words = <<>>
    THEN removePlayerFromRoom(newStartingPhase(JoinNames[1], WordLength), JoinNames[1])
    ELSE WithWords(WithPlayers(newStartingPhase(JoinNames[1], WordLength), 2, Len(words)),
                   words, 1)

InitReady ==
    /\ room \in {StartRoom(words) : words \in SeqsUpTo(Words \cup {NullWord}, MaxStartRoom)}
    /\ last = Called("setPlayerWord", Return(room))
    /\ NoHooks

NextReady == StartGame(LETTERS)

SpecReady == InitReady /\ [][NextReady]_vars

-----------------------------------------------------------------------------
(* Rooms whose hints are spent.  Seven hints of dummies 1 and 2 (dummy 1     *)
(* has granted its free hint, dummy 2 is one use from it), then as many      *)
(* hints of dummy 1 as there are hints left.                                 *)

SpentRoom(r0) ==
    UseDummies(UseDummies(r0, <<1, 2>>, 7), <<1>>,
               UseDummies(r0, <<1, 2>>, 7).hintsRemaining)

SpentRooms == {SpentRoom(r0) : r0 \in StartedRooms(ReadyRoom(WordAB, WordBB), {"A"})}

\* the number of hints given in a room of SpentRooms
SpentLog == Len((CHOOSE r \in SpentRooms : TRUE).hintLog)

InitSpent ==
    /\ room \in SpentRooms
    /\ last = Called("giveHint", Return(room))
    /\ NoHooks

NextSpent ==
    \/ SetProposedHint({"a", Stranger}, {WildcardHint})
    \/ GiveHint(AllHints(room), SpentLog + MaxHints)
    \/ PerformResolveAction

SpecSpent == InitSpent /\ [][NextSpent]_vars

-----------------------------------------------------------------------------
(* A Start room about to be full: players join it through useJoinRoom, and  *)
(* addPlayerToRoom is also called on it directly.                           *)

\* the first player, and the players that come when four are in the room
Joiners == {JoinNames[k] : k \in {1} \cup ((MAX_PLAYERS - 1)..(MAX_PLAYERS + 1))}

InitJoin ==
    /\ room = WithPlayers(newStartingPhase(JoinNames[1], WordLength), 2, MAX_PLAYERS - 2)
    /\ last = Called("addPlayerToRoom", Return(room))
    /\ NoHooks

NextJoin ==
    \/ AddPlayer(Joiners, MAX_PLAYERS)
    \/ AddPlayerToRoom(Joiners, MaxJoinRoom)
    \/ RemovePlayer(Joiners)
    \/ SetPlayerWord({JoinNames[1]}, {WordAB})

SpecJoin == InitJoin /\ [][NextJoin]_vars

-----------------------------------------------------------------------------
(* The clients of a room whose hint is being resolved (gameHook.tsx): each  *)
(* lists the room and its version, and commits the room it computes from    *)
(* the room it has listed.  The server holds room and stateVersion.         *)

\* the players whose clients are open (PlayerNameContext)
Clients == {"a", "b"}

\* useState<Mutation | null>(null)
NoMutation == [playerName |-> "", action |-> [player |-> 0, kind |-> "none"]]

\* useResolveHint: allowed
Allowed(g, playerName) == getPlayerNumber(g.gameState, playerName) # 0

\* resolveHintMutator; letter and dummyLetters are the outcomes of randomLetter()
resolveHintMutator(r, m, letter, dummyLetters) ==
    performResolveAction(r, m.action, letter, dummyLetters).value

\* the effect of useMutateGame of client c, run when the game g it has listed
\* or its mutation m has changed.  On a room that is not Resolving the
\* mutator throws (activeHint.playerActions is undefined), and nothing is
\* committed.
useMutateGame(c, g, m) ==
    IF m = NoMutation \/ ~Resolving(g.gameState)
    THEN /\ mutation' = [mutation EXCEPT ![c] = m]
         /\ commits' = commits
    ELSE \E letter \in LETTERS :
         \E dummyLetters \in [DummiesUsed(g.gameState.activeHint.hint) -> LETTERS] :
            /\ mutation' = [mutation EXCEPT ![c] = IF Allowed(g, c) THEN m ELSE NoMutation]
            /\ commits' = commits \cup
                    {[client |-> c,
                      stateVersion |-> g.stateVersion,
                      gameState |-> resolveHintMutator(g.gameState, m, letter, dummyLetters)]}

\* the player of client c asks for a Flip: setMutation of useResolveHint
SetMutation(c) ==
    /\ requested[c] < MaxRequests
    /\ Resolving(game[c].gameState)
    /\ Allowed(game[c], c)
    /\ useMutateGame(c, game[c],
            [playerName |-> c,
             action |-> [player |-> getPlayerNumber(game[c].gameState, c), kind |-> "flip"]])
    /\ requested' = [requested EXCEPT ![c] = @ + 1]
    /\ UNCHANGED <<room, last, stateVersion, game, responses>>

\* the server takes a commit: it is accepted iff its version is the room's
CallCommit ==
    \E req \in commits :
        /\ commits' = commits \ {req}
        /\ IF req.stateVersion = stateVersion
           THEN /\ stateVersion < MaxVersion
                /\ room' = req.gameState
                /\ stateVersion' = stateVersion + 1
                /\ responses' = responses \cup {[client |-> req.client, success |-> TRUE]}
           ELSE /\ responses' = responses \cup {[client |-> req.client, success |-> FALSE]}
                /\ UNCHANGED <<room, stateVersion>>
        /\ UNCHANGED <<last, game, mutation, requested>>

\* the response of a commit reaches its client: a success clears the mutation
CommitResponse ==
    \E response \in responses :
        /\ responses' = responses \ {response}
        /\ mutation' = IF response.success
                       THEN [mutation EXCEPT ![response.client] = NoMutation]
                       ELSE mutation
        /\ UNCHANGED <<room, last, stateVersion, game, requested, commits>>

\* listLoop of client c returns the room and its version, which are other
\* than those the client has
ListLoop(c) ==
    /\ game[c].stateVersion # stateVersion
    /\ game' = [game EXCEPT ![c] = [gameState |-> room, stateVersion |-> stateVersion]]
    /\ useMutateGame(c, [gameState |-> room, stateVersion |-> stateVersion], mutation[c])
    /\ UNCHANGED <<room, last, stateVersion, requested, responses>>

InitHook ==
    /\ room \in {giveHint(r0, PlayersHint(r0, 1, <<1, 2>>), EmptyMap).value :
                    r0 \in StartedRooms(ReadyRoom(WordAB, WordBB), {"A"})}
    /\ last = Called("giveHint", Return(room))
    /\ stateVersion = 1
    /\ game = [c \in Clients |-> [gameState |-> room, stateVersion |-> 1]]
    /\ mutation = [c \in Clients |-> NoMutation]
    /\ requested = [c \in Clients |-> 0]
    /\ commits = {}
    /\ responses = {}

NextHook ==
    \/ \E c \in Clients : SetMutation(c)
    \/ CallCommit
    \/ CommitResponse
    \/ \E c \in Clients : ListLoop(c)

SpecHook == InitHook /\ [][NextHook]_vars

-----------------------------------------------------------------------------
(* What the steps of a behaviour show of the calls *)

\* the last element of a non-empty array
LastOf(arr) == arr[Len(arr)]

\* the hint an accepted giveHint gave: the active hint, or the hint logged last
GivenHint(r) ==
    IF Resolving(r) THEN r.activeHint.hint ELSE LastOf(r.hintLog).hint

\* the actions recorded for the hint resolved or completed last
RecordedActions(r) ==
    IF Resolving(r) THEN r.activeHint.playerActions ELSE LastOf(r.hintLog).playerActions

\* the letters of a hint that come from the given kind of source
LettersFrom(hint, sourceType) ==
    SelectSeq(hint.lettersAndSources, LAMBDA l : l.sourceType = sourceType)

-----------------------------------------------------------------------------
(* C1: legality gating of giveHint *)

\* one letter of a hint passes the check, as the claim states it
LetterPasses(r, l) ==
    CASE l.sourceType = "player" -> l.letter = ActiveLetter(r, l.playerNumber)
      [] l.sourceType = "bonus" -> \E i \in DOMAIN r.bonuses : r.bonuses[i] = l.letter
      [] l.sourceType = "dummy" -> l.letter = r.dummies[l.dummyNumber].currentLetter
      [] l.sourceType = "wildcard" -> TRUE

HintPasses(r, hint) ==
    \A i \in DOMAIN hint.lettersAndSources : LetterPasses(r, hint.lettersAndSources[i])

\* a call of giveHint on a Proposing room
C1_Step ==
    (Proposing(room) /\ last'.op = "giveHint") =>
        IF HintPasses(room, last'.hint)
        THEN /\ last'.ok
             /\ GivenHint(room') = last'.hint
        ELSE /\ ~last'.ok
             /\ last'.error = "illegal hint"
             /\ room' = room
             /\ Proposing(room')

\* C1: giveHint on a Proposing room rejects with "illegal hint", leaving the
\* room unchanged (still Proposing; hintsGiven, hintsRemaining and hintLog
\* untouched), whenever a letter of the hint names a player's letter that is
\* not the player's active letter, a bonus letter that is not in the pool, or
\* a dummy letter that is not the dummy's current letter; a hint whose every
\* letter passes is accepted
C1_LegalityGating == [][C1_Step]_vars

\* a hint was rejected as illegal in a room whose bonus pool holds a letter
C1_Witness ==
    /\ Proposing(room)
    /\ last.op = "giveHint"
    /\ ~last.ok
    /\ last.error = "illegal hint"
    /\ room.bonuses # <<>>
    /\ \E i \in DOMAIN last.hint.lettersAndSources :
            last.hint.lettersAndSources[i].sourceType = "bonus"

-----------------------------------------------------------------------------
(* C10: a hint that names no player is resolved at once *)

\* the multiset of the distinct letters a hint takes from the bonus pool
BonusLettersNamed(hint) ==
    SetToBag({l.letter : l \in Range(LettersFrom(hint, "bonus"))})

\* the dummies (1-indexed) a hint names
DummiesNamed(hint) == {l.dummyNumber : l \in Range(LettersFrom(hint, "dummy"))}

\* an accepted giveHint on a Proposing room
C10_Step ==
    (Proposing(room) /\ last'.op = "giveHint" /\ last'.ok) =>
        LET hint == last'.hint
            used == DummiesNamed(hint)
            free == Cardinality({d \in used : room.dummies[d].untilFreeHint = 1})
        IN  IF LettersFrom(hint, "player") = <<>>
            THEN /\ Proposing(room')
                 /\ room'.activeHint.proposedHints = EmptyMap
                 /\ room'.hintLog = Append(room.hintLog,
                        [hint |-> hint,
                         totalHints |-> Len(room.hintLog) + room.hintsRemaining,
                         activeIndexes |->
                            [i \in DOMAIN room.players |-> room.players[i].hand.activeIndex],
                         playerActions |-> <<>>])
                 /\ room'.hintsRemaining = room.hintsRemaining - 1 + free
                 /\ SeqToBag(room'.bonuses) (+) BonusLettersNamed(hint)
                        = SeqToBag(room.bonuses)
                 /\ \A d \in DOMAIN room.dummies :
                        IF d \in used
                        THEN room'.dummies[d].untilFreeHint
                                = room.dummies[d].untilFreeHint - 1
                        ELSE room'.dummies[d] = room.dummies[d]
                 /\ \A i \in DOMAIN room.players :
                        room'.players[i] =
                            IF i = hint.givenByPlayer
                            THEN [room.players[i] EXCEPT !.hintsGiven = @ + 1]
                            ELSE room.players[i]
            ELSE Resolving(room')

\* C10: giveHint with a legal hint that has no Player-sourced letter returns
\* a room that is already Proposing with no proposed hint, the hint appended
\* to hintLog with no player action, hintsRemaining charged as for a
\* completed resolution, the bonus letters and dummies it names used up, and
\* the giver's hintsGiven incremented; the room is never seen Resolving it
C10_AutoResolution == [][C10_Step]_vars

\* a hint of a dummy letter and a bonus letter was given and is already logged
C10_Witness ==
    /\ Proposing(room)
    /\ last.op = "giveHint"
    /\ last.ok
    /\ Len(room.hintLog) = MidLog + 1
    /\ LastOf(room.hintLog).hint = last.hint
    /\ LastOf(room.hintLog).playerActions = <<>>
    /\ LettersFrom(last.hint, "dummy") # <<>>
    /\ LettersFrom(last.hint, "bonus") # <<>>
    /\ room.bonuses = <<>>

-----------------------------------------------------------------------------
(* C3: what becomes of the letters in play *)

RECURSIVE HandLetters(_)
\* the letters of every hand
HandLetters(players) ==
    IF players = <<>> THEN <<>>
    ELSE Head(players).hand.letters \o HandLetters(Tail(players))

\* the multiset of the letters of the hands, the bonus pool and the dummies
LetterBag(r) ==
    SeqToBag(HandLetters(r.players))
        (+) SeqToBag(r.bonuses)
        (+) SeqToBag([j \in DOMAIN r.dummies |-> r.dummies[j].currentLetter])

\* C3 as claimed: over every step between started rooms, the letters in play
\* less the letters the step drew are the letters in play before the step
C3_Original ==
    [][(Started(room) /\ Started(room')) =>
            LetterBag(room') (-) last'.drawn = LetterBag(room)]_vars

\* the letter a step credits to the bonus pool: the guess of a Guess action
\* that equals the action's actual letter
C3_Credited ==
    IF last'.op = "performResolveAction"
    THEN LET action == LastOf(RecordedActions(room'))
         IN  IF action.kind = "guess" /\ action.guess = action.actual
             THEN SetToBag({action.guess}) ELSE EmptyBag
    ELSE EmptyBag

\* the steps that discard nothing: a giveHint that leaves the room Resolving,
\* and a None or Flip action that does not complete the resolution
C3_KeepsAll ==
    /\ Resolving(room')
    /\ \/ last'.op = "giveHint"
       \/ /\ last'.op = "performResolveAction"
          /\ LastOf(RecordedActions(room')).kind \in {"none", "flip"}

C3_Step ==
    (Started(room) /\ Started(room')) =>
        /\ LetterBag(room') \sqsubseteq (LetterBag(room) (+) last'.drawn (+) C3_Credited)
        /\ C3_KeepsAll => LetterBag(room') = LetterBag(room) (+) last'.drawn

\* C3, amended: over every step between started rooms, every letter in play
\* after the step was in play before it, or was drawn by the step, or is the
\* guess a Guess action with guess = actual adds to the bonus pool; a giveHint
\* that leaves the room Resolving and a None or Flip action that does not
\* complete the resolution keep every letter (letters after = letters before
\* plus the letters drawn).  Letters do leave play: a Guess drops the letter
\* past the end of the hand, a completion drops the bonus letters and the
\* dummy letters the hint used, moveToEndgame drops the letters past the end
C3_Conservation == [][C3_Step]_vars

\* a wrong Guess has just replaced the letter past the end of a hand
C3_Witness ==
    /\ Resolving(room)
    /\ last.op = "performResolveAction"
    /\ LastOf(RecordedActions(room)).kind = "guess"
    /\ LastOf(RecordedActions(room)).guess # LastOf(RecordedActions(room)).actual
    /\ last.drawn # EmptyBag
    /\ Len(room.players[LastOf(RecordedActions(room)).player].hand.letters)
            = room.wordLength + 1

-----------------------------------------------------------------------------
(* C6: the round trip of a hint answered with None *)

\* the players that have an action recorded
Acted(actions) == {actions[i].player : i \in DOMAIN actions}

AllNone(actions) == \A i \in DOMAIN actions : actions[i].kind = "none"

\* the hint given last was answered None by exactly the players it names,
\* and no hint was given since
C6_RoundTripDone ==
    /\ Proposing(room)
    /\ room.hintLog # <<>>
    /\ AllNone(LastOf(room.hintLog).playerActions)
    /\ Acted(LastOf(room.hintLog).playerActions) = HintPlayers(LastOf(room.hintLog).hint)

\* the active hint has been answered with None actions only so far
C6_RoundTripRunning ==
    /\ Resolving(room)
    /\ AllNone(room.activeHint.playerActions)

\* whichResolveActionRequired was asked for a player of the room
C6_Asked ==
    /\ last.op = "whichResolveActionRequired"
    /\ getPlayerNumber(room, last.name) # 0

\* C6 as claimed: asked after the round trip, whichResolveActionRequired
\* answers Done for a player the hint names and Uninvolved for any other
C6_Original ==
    (C6_Asked /\ C6_RoundTripDone) =>
        /\ last.ok
        /\ last.answer =
                IF getPlayerNumber(room, last.name)
                        \in HintPlayers(LastOf(room.hintLog).hint)
                THEN "done" ELSE "uninvolved"

\* C6, amended: after giveHint and None actions, while a player the hint
\* names has not acted the room is Resolving and whichResolveActionRequired
\* answers Done for a named player that has acted, Flip or Guess (by the
\* length of the hand) for a named player that has not, and Uninvolved for
\* any other player; once every named player has acted the room is Proposing
\* again and the query, which reads the hint being resolved, fails for every
\* player of the room
C6_RoundTrip ==
    C6_Asked =>
        LET playerNumber == getPlayerNumber(room, last.name)
        IN  /\ C6_RoundTripRunning =>
                /\ last.ok
                /\ last.answer =
                    IF playerNumber \notin HintPlayers(room.activeHint.hint)
                    THEN "uninvolved"
                    ELSE IF playerNumber \in Acted(room.activeHint.playerActions)
                    THEN "done"
                    ELSE IF Len(room.players[playerNumber].hand.letters)
                                = room.wordLength
                    THEN "flip" ELSE "guess"
            /\ C6_RoundTripDone => (~last.ok /\ last.error = "TypeError")

\* the query was asked, and failed, after both players answered None
C6_Witness ==
    /\ C6_Asked
    /\ C6_RoundTripDone
    /\ HintPlayers(LastOf(room.hintLog).hint) = {1, 2}
    /\ ~last.ok

-----------------------------------------------------------------------------
(* C2: when the resolution of a hint completes *)

\* a call of performResolveAction on a room resolving a hint that names players
C2_Step ==
    (Resolving(room) /\ last'.op = "performResolveAction"
            /\ HintPlayers(room.activeHint.hint) # {}) =>
        LET hint == room.activeHint.hint
            submitted == Acted(RecordedActions(room'))
            grants == \E d \in DummiesNamed(hint) : room.dummies[d].untilFreeHint = 1
        IN  /\ ~(HintPlayers(hint) \subseteq Acted(room.activeHint.playerActions))
            /\ IF HintPlayers(hint) \subseteq submitted
               THEN /\ Proposing(room')
                    /\ room'.activeHint.proposedHints = EmptyMap
                    /\ LastOf(room'.hintLog).hint = hint
                    /\ ~grants => room'.hintsRemaining = room.hintsRemaining - 1
               ELSE /\ Resolving(room')
                    /\ room'.activeHint.hint = hint
                    /\ room'.hintsRemaining = room.hintsRemaining

\* C2: for an accepted hint that names a non-empty set S of players, the room
\* stays Resolving after every performResolveAction while a player of S has
\* not submitted an action, and becomes Proposing, with no proposed hint, at
\* the very action after which every player of S has submitted, in whatever
\* order they act; at that step hintsRemaining decreases by exactly 1 when
\* the hint uses no dummy whose untilFreeHint is 1
C2_ResolveCompletion == [][C2_Step]_vars

\* a hint naming players 1 and 2 was completed by player 2, then player 1
C2_Witness ==
    /\ Proposing(room)
    /\ last.op = "performResolveAction"
    /\ Len(room.hintLog) = LateLog + 1
    /\ HintPlayers(LastOf(room.hintLog).hint) = {1, 2}
    /\ Len(LastOf(room.hintLog).playerActions) = 2
    /\ LastOf(room.hintLog).playerActions[1].player = 2
    /\ LastOf(room.hintLog).playerActions[2].player = 1
    /\ room.hintsRemaining = STARTING_HINTS - LateLog - 1

-----------------------------------------------------------------------------
(* C5: the free hint of a dummy *)

\* a step that completes the resolution of a hint
C5_Step ==
    (room.phase = "hint" /\ room'.phase = "hint"
            /\ Len(room'.hintLog) = Len(room.hintLog) + 1) =>
        LET used == DummiesNamed(LastOf(room'.hintLog).hint)
            free == Cardinality({d \in used : room.dummies[d].untilFreeHint = 1})
        IN  /\ room'.hintsRemaining = room.hintsRemaining - 1 + free
            /\ free = 1 => room'.hintsRemaining = room.hintsRemaining
            /\ \A d \in DOMAIN room.dummies :
                    IF d \in used
                    THEN room'.dummies[d].untilFreeHint = room.dummies[d].untilFreeHint - 1
                    ELSE room'.dummies[d] = room.dummies[d]

\* C5: when the resolution of a hint uses a dummy whose untilFreeHint is 1,
\* hintsRemaining after the resolution equals hintsRemaining before it; in
\* general a resolution changes hintsRemaining by -1 plus the number of
\* distinct dummies used whose untilFreeHint was exactly 1, every dummy used
\* has untilFreeHint decremented by exactly 1, and the other dummies are
\* unchanged
C5_FreeHint == [][C5_Step]_vars

\* a player completed a hint that used dummy 1 at its free hint, and not
\* dummy 2: the eighth hint left as many hints as the seventh
C5_Witness ==
    /\ Proposing(room)
    /\ last.op = "performResolveAction"
    /\ Len(room.hintLog) = LateLog + 1
    /\ DummiesNamed(LastOf(room.hintLog).hint) = {1}
    /\ room.dummies[1].untilFreeHint = 0
    /\ room.dummies[2].untilFreeHint = 1
    /\ room.hintsRemaining = STARTING_HINTS - LateLog

-----------------------------------------------------------------------------
(* C4: one wildcard for the whole room *)

HasWildcard(guess) == \E i \in DOMAIN guess : guess[i].sourceType = "wildcard"

\* the number of wildcards over all the players' guess lists
WildcardCount(r) ==
    Len(SelectSeq(AllGuesses(r.players), LAMBDA g : g.sourceType = "wildcard"))

\* a call of setFinalGuess with a guess that holds the wildcard, while the
\* guess of another player holds it
C4_Step ==
    (/\ room.phase = "endgame"
     /\ last'.op = "setFinalGuess"
     /\ HasWildcard(last'.guess)
     /\ \E q \in DOMAIN room.players \ {last'.playerNumber} :
            HasWildcard(room.players[q].guess)) =>
        /\ last'.isNull
        /\ room' = room

\* C4: in an Endgame room where one player's guess already holds the
\* wildcard, setFinalGuess for any other player with a guess that holds the
\* wildcard returns the rejected result and the first player's guess stays
\* installed; so in every reachable Endgame state the wildcard appears at
\* most once over all the players' guess lists
C4_WildcardExclusive ==
    /\ [][C4_Step]_vars
    /\ [](room.phase = "endgame" => WildcardCount(room) <= 1)

\* player 2 was refused the wildcard that the guess of player 1 holds
C4_Witness ==
    /\ room.phase = "endgame"
    /\ last.op = "setFinalGuess"
    /\ last.isNull
    /\ last.playerNumber = 2
    /\ HasWildcard(last.guess)
    /\ HasWildcard(room.players[1].guess)
    /\ ~HasWildcard(room.players[2].guess)

-----------------------------------------------------------------------------
(* C7: the numbers of the players *)

\* every player of r is at the same place in r2
SamePlaces(r, r2) ==
    \A i \in DOMAIN r.players :
        /\ i \in DOMAIN r2.players
        /\ r2.players[i].name = r.players[i].name

C7_Step ==
    /\ (Started(room) /\ Started(room')) =>
            \A name \in Names \cup {Stranger} :
                getPlayerNumber(room', name) = getPlayerNumber(room, name)
    /\ (room.phase = "start" /\ last'.op \in {"setPlayerWord", "addPlayerToRoom"}) =>
            SamePlaces(room, room')
    /\ (room.phase = "start" /\ room'.phase = "start" /\ ~SamePlaces(room, room')) =>
            last'.op = "removePlayerFromRoom"

\* C7: once a game is started, getPlayerNumber returns for every player name
\* the same number in every later state of the room, whatever setProposedHint,
\* giveHint, performResolveAction, setHandGuess, moveToEndgame, setFinalGuess
\* and commitFinalGuess do; in the Start phase setPlayerWord and addPlayer
\* never change the place of an existing player, and only removePlayer can
C7_PlayerNumberStable == [][C7_Step]_vars

\* player a, who joined the room of player b, is still player 2 when a
\* final guess is committed after a hint
C7_Witness ==
    /\ room.phase = "endgame"
    /\ last.op = "commitFinalGuess"
    /\ room.hintLog # <<>>
    /\ getPlayerNumber(room, "b") = 1
    /\ getPlayerNumber(room, "a") = 2
    /\ room.players[2].committed

-----------------------------------------------------------------------------
(* C8: the phases of a room *)

PhaseRank(r) ==
    CASE r.phase = "start" -> 0
      [] r.phase = "hint" -> 1
      [] r.phase = "endgame" -> 2

C8_Step ==
    /\ PhaseRank(room') >= PhaseRank(room)
    /\ PhaseRank(room') <= PhaseRank(room) + 1
    /\ (room.phase = "start" /\ room'.phase = "hint") =>
            (last'.op = "startGameRoom" /\ Proposing(room'))
    /\ (Proposing(room) /\ Resolving(room')) => (last'.op = "giveHint" /\ last'.ok)
    /\ (Resolving(room) /\ Proposing(room')) =>
            /\ last'.op = "performResolveAction"
            /\ room'.hintLog = Append(room.hintLog, LastOf(room'.hintLog))
            /\ LastOf(room'.hintLog).hint = room.activeHint.hint
            /\ HintPlayers(room.activeHint.hint)
                    \subseteq Acted(LastOf(room'.hintLog).playerActions)
    /\ (room.phase # "endgame" /\ room'.phase = "endgame") =>
            (last'.op = "moveToEndgame" /\ room.phase = "hint")
    /\ room.phase = "endgame" => room'.phase = "endgame"

\* C8: along every sequence of engine operations the phase of the room only
\* moves Start -> Hinting -> Endgame and never back; inside Hinting the
\* active hint moves Proposing -> Resolving only by an accepted giveHint and
\* Resolving -> Proposing only by the completion of the resolution; Endgame
\* is entered only by moveToEndgame from a Hinting room and is never left
C8_PhaseMonotonic == [][C8_Step]_vars

\* a room that went through every phase: a hint was given, resolved by a
\* player, and the endgame entered, where a guess was installed
C8_Witness ==
    /\ room.phase = "endgame"
    /\ last.op = "setFinalGuess"
    /\ last.ok /\ ~last.isNull
    /\ room.hintLog # <<>>
    /\ LastOf(room.hintLog).playerActions # <<>>
    /\ room.players[1].guess # <<>>

-----------------------------------------------------------------------------
(* C9: the start of a game *)

\* the player (1-indexed) before player i, the last player before the first
PlayerBefore(r, i) == IF i = 1 THEN Len(r.players) ELSE i - 1

\* a call of startGameRoom on a ready room
C9_Step ==
    (room.phase = "start" /\ last'.op = "startGameRoom" /\ isRoomReady(room)) =>
        /\ last'.ok
        /\ room'.phase = "hint"
        /\ DOMAIN room'.players = DOMAIN room.players
        /\ \A i \in DOMAIN room.players :
            LET word == room.players[PlayerBefore(room, i)].word
                player == room'.players[i]
            IN  /\ player.name = room.players[i].name
                /\ SeqToBag(player.hand.letters) = SeqToBag(word)
                /\ Len(player.hand.letters) = Len(word)
                /\ player.hand.guesses = [k \in 1..Len(word) |-> NULL]
                /\ player.hand.activeIndex = 0
                /\ player.hintsGiven = 0
        /\ room'.bonuses = <<>>
        /\ room'.hintsRemaining = 11
        /\ room'.hintLog = <<>>
        /\ room'.activeHint = [state |-> "PROPOSING", proposedHints |-> EmptyMap]

\* C9: startGame on a ready room of n players gives the player at index i a
\* hand whose letters are a permutation of the word of the player at index
\* (i-1) mod n (player 0 receives the word of the last player), with guesses
\* all null and of the length of the word, activeIndex 0 and hintsGiven 0,
\* and makes an empty bonus pool, hintsRemaining 11, an empty hint log and
\* an activeHint that is Proposing with no proposed hint
C9_StartGame == [][C9_Step]_vars

\* a game of three players was started: the second holds the letters of the
\* word of the first, shuffled, and not those of the word of the third
C9_Witness ==
    /\ room.phase = "hint"
    /\ last.op = "startGameRoom"
    /\ Len(room.players) = 3
    /\ room.players[2].hand.letters # WordAB
    /\ SeqToBag(room.players[2].hand.letters) = SeqToBag(WordAB)
    /\ room.players[3].hand.letters = WordBB
    /\ room.players[1].hand.letters = WordBB

-----------------------------------------------------------------------------
(* C11: the shape of a hand *)

\* every hand has wordLength or wordLength + 1 letters and an activeIndex
\* from 0 to the number of its letters
HandsLegal(r) ==
    \A i \in DOMAIN r.players :
        LET hand == r.players[i].hand
        IN  /\ 0 <= hand.activeIndex
            /\ hand.activeIndex <= Len(hand.letters)
            /\ Len(hand.letters) \in {r.wordLength, r.wordLength + 1}

\* C11 as claimed: in every state reached from startGame by giveHint,
\* performResolveAction and moveToEndgame every hand has 0 <= activeIndex <=
\* letters.length and wordLength or wordLength + 1 letters, and during
\* Hinting the activeIndex of a hand never decreases
C11_HandInvariant ==
    /\ [](Started(room) => HandsLegal(room))
    /\ [][(room.phase = "hint" /\ room'.phase = "hint") =>
            \A i \in DOMAIN room.players :
                room'.players[i].hand.activeIndex >= room.players[i].hand.activeIndex]_vars

\* a Flip has moved the activeIndex of a hand past its letters
C11_Witness ==
    /\ room.phase = "hint"
    /\ last.op = "performResolveAction"
    /\ LastOf(RecordedActions(room)).kind = "flip"
    /\ \E i \in DOMAIN room.players :
            room.players[i].hand.activeIndex > Len(room.players[i].hand.letters)

-----------------------------------------------------------------------------
(* C12: when setFinalGuess refuses a guess *)

\* how often arr holds x
Copies(arr, x) == Cardinality({i \in DOMAIN arr : arr[i] = x})

\* how often the guess lists of a room claim the bonus letter l
BonusClaims(r, l) == Copies(AllGuesses(r.players), BonusLetter(l))

\* with the guess installed for player p: p claims a place of its own hand
\* twice, or the wildcard is claimed more than once over all the players, or
\* a bonus letter is claimed more often than the pool holds it
C12_Conflict(r, p, guess) ==
    LET installed == [r EXCEPT !.players[p].guess = guess]
        ownPlaces == {i \in DOMAIN guess : guess[i].sourceType = "player"}
    IN  \/ Cardinality({guess[i].index : i \in ownPlaces}) < Cardinality(ownPlaces)
        \/ WildcardCount(installed) > 1
        \/ \E l \in LETTERS : BonusClaims(installed, l) > Copies(r.bonuses, l)

\* a call of setFinalGuess
C12_Step ==
    (room.phase = "endgame" /\ last'.op = "setFinalGuess") =>
        /\ last'.ok
        /\ last'.isNull <=> C12_Conflict(room, last'.playerNumber, last'.guess)
        /\ room' = IF last'.isNull THEN room
                   ELSE [room EXCEPT !.players[last'.playerNumber].guess = last'.guess]

\* C12: setFinalGuess(room, p, guess) returns the rejected value, and throws
\* nothing, exactly when, with the guess installed for player p, p claims the
\* same place of its own hand twice, or the wildcard is claimed more than
\* once over all the players, or a bonus letter is claimed over all the
\* players more often than it occurs in room.bonuses; otherwise it returns a
\* room that differs from its input only in the guess list of player p
C12_FinalGuessRejection == [][C12_Step]_vars

\* player 2 was refused the only bonus letter A, which player 1 claims
C12_Witness ==
    /\ room.phase = "endgame"
    /\ last.op = "setFinalGuess"
    /\ last.isNull
    /\ last.playerNumber = 2
    /\ last.guess = <<BonusLetter("A")>>
    /\ room.bonuses = <<"A">>
    /\ room.players[1].guess = <<BonusLetter("A"), OwnPlace(0)>>
    /\ room.players[2].guess = <<>>

-----------------------------------------------------------------------------
(* C13: the dummies of a new game *)

\* the countdowns of the dummies of a room
Countdowns(r) == [j \in DOMAIN r.dummies |-> r.dummies[j].untilFreeHint]

\* a call of startGameRoom that returned
C13_Started == room.phase = "start" /\ last'.op = "startGameRoom" /\ last'.ok

\* C13 as claimed: a room of 4 players gets exactly 1 dummy, with
\* untilFreeHint 8, and a room of 2 players gets exactly 4 dummies, with
\* untilFreeHint 7, 8, 9 and 10
C13_Original ==
    [][C13_Started =>
        /\ Len(room.players) = 4 => Countdowns(room') = <<8>>
        /\ Len(room.players) = 2 => Countdowns(room') = <<7, 8, 9, 10>>]_vars

\* C13, amended: startGame gives a room of n players, n from 2 to 6, 6 - n
\* dummies, with untilFreeHint 7, 8, ... in this order: a room of 2 players
\* gets 4 dummies (7, 8, 9, 10), of 3 players 3 dummies (7, 8, 9), of 4
\* players 2 dummies (7, 8), of 5 players 1 dummy (7), of 6 players none
C13_DummySchedule ==
    [][C13_Started =>
        /\ Len(room.players) \in 2..6
        /\ Countdowns(room') = [j \in 1..(6 - Len(room.players)) |-> 6 + j]
        /\ Len(room.players) = 4 => Countdowns(room') = <<7, 8>>]_vars

\* a game of four players was started with two dummies
C13_Witness ==
    /\ room.phase = "hint"
    /\ last.op = "startGameRoom"
    /\ Len(room.players) = 4
    /\ Countdowns(room) = <<7, 8>>

-----------------------------------------------------------------------------
(* C17: which rooms can be started *)

\* 2 to 6 players, each with a word
C17_Ready(r) ==
    /\ Len(r.players) \in 2..6
    /\ \A i \in DOMAIN r.players : r.players[i].word # NullWord

\* a call of startGameRoom on a Start room
C17_Step ==
    (room.phase = "start" /\ last'.op = "startGameRoom") =>
        /\ isRoomReady(room) <=> C17_Ready(room)
        /\ last'.ok <=> isRoomReady(room)
        /\ IF last'.ok THEN room'.phase = "hint"
           ELSE last'.error # "" /\ room' = room

\* C17: startGame succeeds exactly when isRoomReady(room) is true: it fails
\* with an error for every Start room in which the word of some player is
\* null or the number of players is outside 2..6 (0, 1, 7 or more), and it
\* returns a Hinting room for every Start room of 2 to 6 players who all
\* have a word
C17_StartNeedsReady == [][C17_Step]_vars

\* startGame failed on a room of seven players who all have a word
C17_Witness ==
    /\ room.phase = "start"
    /\ last.op = "startGameRoom"
    /\ ~last.ok
    /\ Len(room.players) = 7
    /\ \A i \in DOMAIN room.players : room.players[i].word # NullWord

-----------------------------------------------------------------------------
(* C14: the players of a Start room *)

\* at most MAX_PLAYERS players, whose names are pairwise distinct
StartLegal(r) ==
    /\ Len(r.players) <= MAX_PLAYERS
    /\ \A i, j \in DOMAIN r.players : i # j => r.players[i].name # r.players[j].name

\* C14 as claimed: every Start room reached by addPlayer, removePlayer and
\* setPlayerWord has the wordLength given at creation, at most 6 players,
\* and pairwise distinct player names
C14_Original ==
    room.phase = "start" => (room.wordLength = WordLength /\ StartLegal(room))

C14_Step ==
    (room.phase = "start" /\ room'.phase = "start") =>
        /\ room'.wordLength = room.wordLength
        /\ (last'.op \in {"removePlayerFromRoom", "setPlayerWord"} /\ StartLegal(room)) =>
                StartLegal(room')
        /\ last'.op = "addPlayerToRoom" =>
                /\ Len(room'.players) = Len(room.players) + 1
                /\ SubSeq(room'.players, 1, Len(room.players)) = room.players
                /\ LastOf(room'.players).word = NullWord
                /\ StartLegal(room) =>
                    (StartLegal(room') <=>
                        /\ getPlayerNumber(room, LastOf(room'.players).name) = 0
                        /\ Len(room.players) < MAX_PLAYERS)

\* C14, amended: every Start room has the wordLength given at creation;
\* removePlayer and setPlayerWord keep a room of at most 6 players with
\* pairwise distinct names such a room; addPlayer always appends the player,
\* so it keeps such a room such a room exactly when the name is not in the
\* room and the room has fewer than 6 players, which is when useJoinRoom
\* calls it; called with a name of the room or on a room of 6 players it
\* returns a room in which a name occurs twice or which has 7 players
C14_StartRoomPlayers ==
    /\ [][C14_Step]_vars
    /\ [](room.phase = "start" => room.wordLength = WordLength)

\* the sixth player has joined: six players, whose names are distinct
C14_Witness ==
    /\ room.phase = "start"
    /\ last.op = "addPlayerToRoom"
    /\ Len(room.players) = 6
    /\ StartLegal(room)

-----------------------------------------------------------------------------
(* C15: one action for each player a hint names *)

\* the players a hint names
C15_Involved(hint) == {l.playerNumber : l \in Range(LettersFrom(hint, "player"))}

\* at most one action of each player, and only of players the hint names
C15_OneEach(hint, actions) ==
    /\ \A i, j \in DOMAIN actions : i # j => actions[i].player # actions[j].player
    /\ Acted(actions) \subseteq C15_Involved(hint)

C15_Recorded ==
    room.phase = "hint" =>
        /\ Resolving(room) =>
                C15_OneEach(room.activeHint.hint, room.activeHint.playerActions)
        /\ \A k \in DOMAIN room.hintLog :
                C15_OneEach(room.hintLog[k].hint, room.hintLog[k].playerActions)

\* a second action of a player, or the action of a player the hint does not name
C15_Step ==
    (Resolving(room) /\ last'.op = "performResolveAction" /\ last'.ok) =>
        LET action == LastOf(RecordedActions(room'))
        IN  (\/ action.player \in Acted(room.activeHint.playerActions)
             \/ action.player \notin C15_Involved(room.activeHint.hint)) =>
                /\ HandLetters(room'.players) = HandLetters(room.players)
                /\ \A i \in DOMAIN room.players :
                        room'.players[i].hand = room.players[i].hand
                /\ room'.bonuses = room.bonuses

\* C15: in every Resolving room and every entry of hintLog, playerActions
\* holds at most one action of each player, and only actions of players a
\* Player-sourced letter of the hint names; a second performResolveAction of
\* a player for the same hint, or one of a player the hint does not name,
\* changes no hand and not the bonus pool
C15_OneActionPerPlayer == [][C15_Step]_vars /\ []C15_Recorded

\* a player the hint does not name has acted: a Guess that was right
C15_Witness ==
    /\ Resolving(room)
    /\ last.op = "performResolveAction"
    /\ LET action == LastOf(room.activeHint.playerActions)
       IN  /\ action.player \notin C15_Involved(room.activeHint.hint)
           /\ action.kind = "guess"
           /\ action.guess = action.actual
           /\ LastOf(room.bonuses) = action.guess

-----------------------------------------------------------------------------
(* C16: the bonus letters a hint uses up *)

\* the multiset of the Bonus-sourced letters of a hint, one for each occurrence
C16_BonusOccurrences(hint) ==
    SeqToBag([k \in DOMAIN LettersFrom(hint, "bonus") |->
                    LettersFrom(hint, "bonus")[k].letter])

\* the letter a right Guess adds to the pool, when the step is such a Guess
C16_Guessed ==
    IF last'.op = "performResolveAction"
    THEN LET action == LastOf(RecordedActions(room'))
         IN  IF action.kind = "guess" /\ action.guess = action.actual
             THEN SetToBag({action.guess}) ELSE EmptyBag
    ELSE EmptyBag

C16_Step ==
    /\ (Proposing(room) /\ last'.op = "giveHint" /\ last'.ok) =>
            \A letter \in LETTERS :
                Copies(last'.hint.lettersAndSources, BonusLetter(letter))
                    <= Copies(room.bonuses, letter)
    /\ (room.phase = "hint" /\ room'.phase = "hint"
            /\ Len(room'.hintLog) = Len(room.hintLog) + 1) =>
            /\ SeqToBag(room'.bonuses) (+) C16_BonusOccurrences(LastOf(room'.hintLog).hint)
                    = SeqToBag(room.bonuses) (+) C16_Guessed
            /\ Len(room'.bonuses) + Len(LettersFrom(LastOf(room'.hintLog).hint, "bonus"))
                    = Len(room.bonuses) + BagCardinality(C16_Guessed)

\* C16: when a hint is resolved, one instance of the letter leaves the bonus
\* pool for every Bonus-sourced letter occurrence of the hint: the pool
\* after completion is the pool before completion minus the multiset of the
\* hint's Bonus-sourced letters, its size going down by their number; and an
\* accepted hint never uses more copies of a bonus letter than the pool holds
C16_BonusConsumption == [][C16_Step]_vars

\* a hint of the same bonus letter twice was accepted on a pool holding it
\* once, and is resolved
C16_Witness ==
    /\ Proposing(room)
    /\ last.op = "giveHint"
    /\ last.ok
    /\ LastOf(room.hintLog).hint = last.hint
    /\ Len(LettersFrom(last.hint, "bonus")) = 2
    /\ BagCardinality(C16_BonusOccurrences(last.hint)) = 2
    /\ Cardinality(Range(LettersFrom(last.hint, "bonus"))) = 1
    /\ room.bonuses = <<>>

-----------------------------------------------------------------------------
(* C18: what a Flip does *)

\* the hands of the players other than p are as they were
OtherHandsKept(p) ==
    \A i \in DOMAIN room.players :
        i # p => room'.players[i].hand = room.players[i].hand

C18_Step ==
    (Resolving(room) /\ last'.op = "performResolveAction" /\ last'.ok
        /\ LastOf(RecordedActions(room')).kind = "flip") =>
        LET p == LastOf(RecordedActions(room')).player
            before == room.players[p].hand
            after == room'.players[p].hand
        IN  /\ after.activeIndex = before.activeIndex + 1
            /\ IF before.activeIndex = room.wordLength - 1
               THEN /\ Len(after.letters) = Len(before.letters) + 1
                    /\ SubSeq(after.letters, 1, Len(before.letters)) = before.letters
                    /\ LastOf(after.letters) \in LETTERS
                    /\ Resolving(room') => last'.drawn = SetToBag({LastOf(after.letters)})
                    /\ Len(before.letters) = room.wordLength =>
                            Len(after.letters) = room.wordLength + 1
               ELSE /\ after.letters = before.letters
                    /\ Resolving(room') => last'.drawn = EmptyBag
            /\ after.guesses = before.guesses
            /\ OtherHandsKept(p)
            /\ Resolving(room') =>
                    /\ room'.bonuses = room.bonuses
                    /\ room'.dummies = room.dummies
                    /\ room'.hintsRemaining = room.hintsRemaining

-----------------------------------------------------------------------------
(* C19: what a Guess does *)

C19_Step ==
    (Resolving(room) /\ last'.op = "performResolveAction" /\ last'.ok
        /\ LastOf(RecordedActions(room')).kind = "guess") =>
        LET action == LastOf(RecordedActions(room'))
            p == action.player
            before == room.players[p].hand
            after == room'.players[p].hand
            pool == IF action.guess = action.actual
                    THEN Append(room.bonuses, action.guess) ELSE room.bonuses
        IN  /\ IF Resolving(room')
               THEN room'.bonuses = pool
               ELSE SeqToBag(room'.bonuses) (+) BonusLettersNamed(room.activeHint.hint)
                        = SeqToBag(pool)
            /\ Len(after.letters) = room.wordLength + 1
            /\ SubSeq(after.letters, 1, room.wordLength)
                    = SubSeq(before.letters, 1, room.wordLength)
            /\ LastOf(after.letters) \in LETTERS
            /\ Resolving(room') => last'.drawn = SetToBag({LastOf(after.letters)})
            /\ after.activeIndex = before.activeIndex
            /\ after.guesses = before.guesses
            /\ OtherHandsKept(p)

\* C19: a Guess of player p adds action.guess to the bonus pool if and only
\* if action.guess equals action.actual; whether or not they match, p's hand
\* afterwards is its first wordLength letters followed by exactly one newly
\* drawn letter (wordLength+1 letters), p's activeIndex is unchanged, and no
\* other player's hand changes
C19_Guess == [][C19_Step]_vars

\* a player the hint names, at the letter behind the word, has guessed
\* wrong: the pool is as it was and the hand has a drawn letter
C19_Witness ==
    /\ Resolving(room)
    /\ last.op = "performResolveAction"
    /\ LET action == LastOf(room.activeHint.playerActions)
       IN  /\ action.kind = "guess"
           /\ action.guess # action.actual
           /\ action.player \in C15_Involved(room.activeHint.hint)
           /\ room.players[action.player].hand.activeIndex = room.wordLength
           /\ Len(room.players[action.player].hand.letters) = room.wordLength + 1
           /\ last.drawn # EmptyBag
           /\ room.bonuses = <<WordAB[1]>>

-----------------------------------------------------------------------------
(* C20: a committed final guess *)

C20_Step ==
    (room.phase = "endgame" /\ room'.phase = "endgame") =>
        /\ \A p \in DOMAIN room.players :
                room.players[p].committed =>
                    /\ room'.players[p].committed
                    /\ room'.players[p].guess = room.players[p].guess
        /\ last'.op = "commitFinalGuess" =>
                \E p \in DOMAIN room.players :
                    room' = [room EXCEPT !.players[p].committed = TRUE]

\* C20: after commitFinalGuess(room, p), p's committed flag is true in every
\* later state, and p's guess is locked: no later setFinalGuess for p
\* changes it; commitFinalGuess changes nothing but p's committed flag
C20_CommitIsFinal == [][C20_Step]_vars

\* setFinalGuess has set the guess of a player who has committed
C20_Witness ==
    /\ room.phase = "endgame"
    /\ last.op = "setFinalGuess"
    /\ last.ok
    /\ ~last.isNull
    /\ room.players[last.playerNumber].committed
    /\ room.players[last.playerNumber].guess = last.guess
    /\ last.guess # <<>>

-----------------------------------------------------------------------------
(* C21: the hints left *)

C21_Step ==
    (Proposing(room) /\ room.hintsRemaining = 0 /\ last'.op = "giveHint") =>
        /\ room' = room
        /\ ~last'.ok \/ last'.isNull

\* C21: in every state reached from startGame by giveHint and
\* performResolveAction, hintsRemaining >= 0; giveHint gives no hint when
\* hintsRemaining is 0
C21_HintBudget ==
    /\ [](room.phase = "hint" => room.hintsRemaining >= 0)
    /\ [][C21_Step]_vars

\* a hint was given and resolved with no hint left: one hint is owed
C21_Witness ==
    /\ Proposing(room)
    /\ last.op = "giveHint"
    /\ last.ok
    /\ LastOf(room.hintLog).hint = last.hint
    /\ room.hintsRemaining = -1

-----------------------------------------------------------------------------
(* C22: the account of the hints *)

\* the dummies that have granted their free hint: startGameRoom sets every
\* countdown above 0, and a countdown passes from 1 to 0 once
C22_Granted(r) == {d \in DOMAIN r.dummies : r.dummies[d].untilFreeHint <= 0}

C22_Account ==
    room.phase = "hint" =>
        Len(room.hintLog) + room.hintsRemaining
            = STARTING_HINTS + Cardinality(C22_Granted(room))

C22_Step ==
    (room.phase = "hint" /\ room'.phase = "hint") =>
        IF Len(room'.hintLog) = Len(room.hintLog) + 1
        THEN LET granting == {d \in DOMAIN room.dummies :
                                /\ room.dummies[d].untilFreeHint = 1
                                /\ room'.dummies[d].untilFreeHint = 0}
             IN  /\ Len(room'.hintLog) + room'.hintsRemaining
                        = Len(room.hintLog) + room.hintsRemaining + Cardinality(granting)
                 /\ C22_Granted(room') = C22_Granted(room) \cup granting
                 /\ C22_Granted(room) \cap granting = {}
                 /\ LastOf(room'.hintLog).totalHints
                        = Len(room.hintLog) + room.hintsRemaining
                 /\ SubSeq(room'.hintLog, 1, Len(room.hintLog)) = room.hintLog
        ELSE /\ room'.hintLog = room.hintLog
             /\ room'.hintsRemaining = room.hintsRemaining
             /\ C22_Granted(room') = C22_Granted(room)

\* C22: in every Hinting state hintLog.length + hintsRemaining equals 11
\* plus the number of free hints granted so far; each dummy grants at most
\* one free hint in the whole game, exactly when its untilFreeHint passes
\* from 1 to 0; and the totalHints of each log entry is hintLog.length +
\* hintsRemaining of the state just before the completion of its hint
C22_HintAccounting == []C22_Account /\ [][C22_Step]_vars

\* a hint of dummies 1 and 2 is resolved: dummy 2 has just granted its free
\* hint, dummy 1, which granted its own long ago, has granted none
C22_Witness ==
    /\ Proposing(room)
    /\ Len(room.hintLog) = SpentLog + 1
    /\ DummiesNamed(LastOf(room.hintLog).hint) = {1, 2}
    /\ room.dummies[2].untilFreeHint = 0
    /\ room.dummies[1].untilFreeHint < 0
    /\ room.hintsRemaining = 0
    /\ LastOf(room.hintLog).totalHints = SpentLog

-----------------------------------------------------------------------------
(* C23: how a bonus letter is earned *)

\* the step has put a letter into the bonus pool
C23_Earned ==
    IF Resolving(room')
    THEN room'.bonuses # room.bonuses
    ELSE SeqToBag(room'.bonuses) (+) BonusLettersNamed(room.activeHint.hint)
            # SeqToBag(room.bonuses)

C23_Step ==
    (Resolving(room) /\ last'.op = "performResolveAction" /\ last'.ok
        /\ LastOf(RecordedActions(room')).kind = "guess" /\ C23_Earned) =>
        LET action == LastOf(RecordedActions(room'))
            player == room.players[action.player]
        IN  /\ Len(player.hand.letters) = room.wordLength + 1
            /\ action.guess = LastOf(player.hand.letters)
            /\ whichResolveActionRequired(room, player.name) = "guess"

\* C23: a performResolveAction of kind Guess by player p adds a letter to
\* the bonus pool only if the guessed letter is the letter in p's extra hand
\* slot (index wordLength) at that moment, p's hand has wordLength+1
\* letters, and whichActionRequired requires p to Guess; the caller cannot
\* enlarge the pool by its choice of the action's 'actual'
C23_BonusEarned == [][C23_Step]_vars

\* player 2, whose extra letter is "A", has guessed "B" as the first action
\* for a hint, and "B" is in the bonus pool
C23_Witness ==
    /\ Resolving(room)
    /\ last.op = "performResolveAction"
    /\ Len(room.hintLog) = MidLog
    /\ room.activeHint.playerActions
            = <<[player |-> 2, kind |-> "guess", guess |-> "B", actual |-> "B"]>>
    /\ room.bonuses = <<"A", "B">>

-----------------------------------------------------------------------------
(* C24: a mutation is applied once *)

\* the actions of the player of client c in the room the server holds
C24_Applied(c) ==
    Cardinality({i \in DOMAIN RecordedActions(room) :
                    RecordedActions(room)[i].player = getPlayerNumber(room, c)})

\* C24: under the protocol of useMutateGame (the new room is computed from
\* the room the client has listed and committed with its version, the server
\* accepts it iff the version is unchanged, and a pending mutation is
\* computed and committed again whenever the listed room or version changes,
\* until a success response clears it), every mutation a client has asked
\* for is applied to the room of the server at most once, under every
\* interleaving of responses, listings and the commits of other clients
C24_AppliedAtMostOnce ==
    \A c \in Clients : C24_Applied(c) <= requested[c]

\* the one Flip player a asked for is in the room of the server twice
C24_Witness ==
    /\ Resolving(room)
    /\ requested["a"] = 1
    /\ room.activeHint.playerActions
            = <<[player |-> 1, kind |-> "flip"], [player |-> 1, kind |-> "flip"]>>
    /\ room.players[1].hand.activeIndex = 2

=============================================================================
